---- MODULE Spec2Model ----
(***************************************************************************)
(* Model of document-n-split: the atomizer (src/atomizer.py) and the       *)
(* lexicographic partitioner (src/partition.py).                           *)
(*                                                                         *)
(* A Python str is a sequence of one-character strings; offsets count      *)
(* characters, as atomizer.py:137 does.  Penalties are floats in the       *)
(* source; the model keeps them exactly, in tenths (1.0 is 10).            *)
(***************************************************************************)
EXTENDS Integers, Sequences, FiniteSets, TLC

VARIABLES
    text,              \* atomize's argument text
    mode_arg,          \* atomize's argument mode, as the caller passed it
    mode,              \* atomize's mode once line 127 has resolved it
    lines,             \* text.splitlines(keepends=True)
    line_start_byte,   \* offset of each line's first character
    i,                 \* index of the next line to dispatch (0-based)
    atoms,             \* the atoms emitted so far
    idx,               \* emit's counter
    heading_stack,     \* sequence of [depth, node_id, title]
    next_node_id,
    section_registry,  \* function node_id -> atom index
    pc,                \* where the pipeline is
    policy,            \* the flags of the last build_cut_candidates call
    cands,             \* the candidates: the list it returned, or the caller's own
    N,                 \* the N of the last partition_into_n call
    weights,           \* its non_heading_penalty and tier_penalties
    result,            \* what that call returned or raised
    cli                \* main's split flow: its flags, stage, calls so far, exit

vars == <<text, mode_arg, mode, lines, line_start_byte, i, atoms, idx, heading_stack,
          next_node_id, section_registry, pc, policy, cands, N, weights, result, cli>>

(***************************************************************************)
(* Characters.                                                             *)
(***************************************************************************)
NL == "\n"

\* the backquote character (chr(96)), which a TLA+ string cannot hold
BQ == "bq"

WS == {" ", NL}

Upper == {"A", "B", "C", "D", "E", "H", "I", "N", "O", "T"}

Lower == {"a", "b", "c", "d", "e", "g", "h", "i", "l", "n", "o", "p", "r", "t", "w", "x"}

Digit == {"1", "2"}

Punct == {"#", "*", "-", "_", BQ, "~", "|", ".", ":", "+", ">", "[", "]", "(", ")"}

Alphabet == WS \cup Upper \cup Lower \cup Digit \cup Punct

NonWS == Alphabet \ WS

Alpha == Upper \cup Lower

(***************************************************************************)
(* str methods.                                                            *)
(***************************************************************************)
RECURSIVE Join(_)
Join(ss) == IF ss = <<>> THEN <<>> ELSE Head(ss) \o Join(Tail(ss))

\* str.splitlines(keepends=True); "\n" is the only line break of Alphabet.
RECURSIVE splitlines(_)
splitlines(s) ==
    IF s = <<>> THEN <<>>
    ELSE LET brk == {p \in 1..Len(s) : s[p] = NL}
             n == IF brk = {} THEN Len(s)
                  ELSE CHOOSE p \in brk : \A q \in brk : p <= q
         IN <<SubSeq(s, 1, n)>> \o splitlines(SubSeq(s, n + 1, Len(s)))

\* str.rstrip("\n")
RECURSIVE rstrip_nl(_)
rstrip_nl(s) ==
    IF s # <<>> /\ s[Len(s)] = NL THEN rstrip_nl(SubSeq(s, 1, Len(s) - 1)) ELSE s

RECURSIVE lstrip(_)
lstrip(s) == IF s # <<>> /\ s[1] \in WS THEN lstrip(Tail(s)) ELSE s

RECURSIVE rstrip(_)
rstrip(s) ==
    IF s # <<>> /\ s[Len(s)] \in WS THEN rstrip(SubSeq(s, 1, Len(s) - 1)) ELSE s

\* str.strip()
strip(s) == lstrip(rstrip(s))

(***************************************************************************)
(* Regular expressions.  A pattern is run over the set of positions the    *)
(* match can have reached (1..Len(s)+1): backtracking search finds a match *)
(* exactly when that set ends up non-empty.                                *)
(***************************************************************************)
\* C{lo,hi}: between lo and hi characters of class C
Rep(s, P, C, lo, hi) ==
    {q \in 1..(Len(s) + 1) :
        \E p \in P : /\ p <= q
                     /\ q - p >= lo
                     /\ q - p <= hi
                     /\ \A r \in p..(q - 1) : s[r] \in C}

\* C{lo,}: lo or more characters of class C
Many(s, P, C, lo) == Rep(s, P, C, lo, Len(s))

\* C?: at most one character of class C
Opt(s, P, C) == Rep(s, P, C, 0, 1)

\* one literal character
Lit(s, P, c) == Rep(s, P, {c}, 1, 1)

\* ^ under re.M: the start of the string and the position after each newline
LineStarts(s) == {p \in 1..(Len(s) + 1) : p = 1 \/ s[p - 1] = NL}

\* $ under re.M: the end of the string and the position before each newline
LineEnds(s) == {p \in 1..(Len(s) + 1) : p = Len(s) + 1 \/ s[p] = NL}

\* $ without re.M: the end of the string, or before a newline that ends it
StrEnds(s) == {p \in 1..(Len(s) + 1) : p = Len(s) + 1 \/ (p = Len(s) /\ s[p] = NL)}

\* (-{3,}|\*{3,}|_{3,})
HrRun(s, P) ==
    Many(s, P, {"-"}, 3) \cup Many(s, P, {"*"}, 3) \cup Many(s, P, {"_"}, 3)

\* the fence marker: three of c, c being BQ or "~"
Marker(s, P, c) == Rep(s, P, {c}, 3, 3)

\* . (any character but a newline)
Dot == Alphabet \ {NL}

\* _RE_HR = ^\s{0,3}(-{3,}|\*{3,}|_{3,})\s*$
RE_HR(line) ==
    Many(line, HrRun(line, Rep(line, {1}, WS, 0, 3)), WS, 0) \cap StrEnds(line) # {}

\* _RE_FENCE = ^\s{0,3}(<marker>)\s*(\S+)?\s*$, for one marker character c
FenceWith(line, c) ==
    LET p1 == Marker(line, Rep(line, {1}, WS, 0, 3), c)
        p2 == Many(line, p1, WS, 0)
        p3 == p2 \cup Many(line, p2, NonWS, 1)
    IN Many(line, p3, WS, 0) \cap StrEnds(line) # {}

RE_FENCE(line) == FenceWith(line, BQ) \/ FenceWith(line, "~")

\* m_f.group(1)
FenceMarker(line) == IF FenceWith(line, BQ) THEN BQ ELSE "~"

\* rf"^\s{{0,3}}{re.escape(fence)}\s*$"
RE_FENCE_CLOSE(line, fence) ==
    Many(line, Marker(line, Rep(line, {1}, WS, 0, 3), fence), WS, 0) \cap StrEnds(line) # {}

\* _RE_HEADING = ^\s{0,3}(#{1,6})\s+(.*?)\s*$ ; the tail always matches a
\* line without newline, so the match is decided once \s+ has matched.
RE_HEADING(line) ==
    Many(line, Rep(line, Rep(line, {1}, WS, 0, 3), {"#"}, 1, 6), WS, 1) # {}

RECURSIVE RunLen(_, _, _)
RunLen(s, p, C) == IF p <= Len(s) /\ s[p] \in C THEN 1 + RunLen(s, p + 1, C) ELSE 0

\* len(m_h.group(1)): the greedy run of "#" after the leading whitespace
HeadingDepth(line) == RunLen(line, RunLen(line, 1, WS) + 1, {"#"})

\* m_h.group(2).strip()
HeadingTitle(line) ==
    strip(SubSeq(line, RunLen(line, 1, WS) + HeadingDepth(line) + 1, Len(line)))

\* _RE_LIST = ^\s{0,3}([-*+])\s+\S|^\s{0,3}\d+\.\s+\S
RE_LIST(line) ==
    LET p0 == Rep(line, {1}, WS, 0, 3)
        bullet == Rep(line, p0, {"-", "*", "+"}, 1, 1)
        number == Lit(line, Many(line, p0, Digit, 1), ".")
    IN Rep(line, Many(line, bullet \cup number, WS, 1), NonWS, 1, 1) # {}

\* ^\s{2,}\S
RE_CONTINUATION(line) == Rep(line, Many(line, {1}, WS, 2), NonWS, 1, 1) # {}

\* _RE_TABLE_ROW = ^\s*\|.*\|\s*$
RE_TABLE_ROW(line) ==
    LET p1 == Lit(line, Many(line, {1}, WS, 0), "|")
        p2 == Lit(line, Many(line, p1, Dot, 0), "|")
    IN Many(line, p2, WS, 0) \cap StrEnds(line) # {}

\* \s*:?-+:?\s*
SepCell(s, P) ==
    Many(s, Opt(s, Many(s, Opt(s, Many(s, P, WS, 0), {":"}), {"-"}, 1), {":"}), WS, 0)

\* (\s*:?-+:?\s*\|)+ : the positions after one or more repetitions
RECURSIVE SepCells(_, _, _)
SepCells(s, acc, frontier) ==
    LET new == Lit(s, SepCell(s, frontier), "|") \ acc
    IN IF new = {} THEN acc ELSE SepCells(s, acc \cup new, new)

\* _RE_TABLE_SEP = ^\s*\|?(\s*:?-+:?\s*\|)+\s*:?-+:?\s*\|?\s*$
RE_TABLE_SEP(line) ==
    LET p1 == Opt(line, Many(line, {1}, WS, 0), {"|"})
        p2 == SepCells(line, {}, p1)
        p3 == Opt(line, SepCell(line, p2), {"|"})
    IN Many(line, p3, WS, 0) \cap StrEnds(line) # {}

\* _is_standalone_bold_heading: the title, or <<>> for None
is_standalone_bold_heading(line) ==
    LET s == strip(line)
        p2 == Lit(s, Lit(s, {1}, "*"), "*")
        p3 == Many(s, p2, Dot, 1)
        p4 == Lit(s, Lit(s, p3, "*"), "*")
    IN IF Len(s) + 1 \in p4 THEN strip(SubSeq(s, 3, Len(s) - 2)) ELSE <<>>

MaxCapsLen == 80

\* [A-Z0-9 \-:,'\".()]
CapsClass == Upper \cup Digit \cup {" ", "-", ":", ",", "'", "\"", ".", "(", ")"}

\* _is_allcaps_heading: the stripped line, or <<>> for None
is_allcaps_heading(line) ==
    LET s == strip(line)
        letters == {p \in 1..Len(s) : s[p] \in Alpha}
        upper == {p \in letters : s[p] \in Upper}
        full == Many(s, Rep(s, {1}, Upper \cup Digit, 1, 1), CapsClass, 1)
    IN IF /\ s # <<>>
          /\ Len(s) <= MaxCapsLen
          /\ Len(s) + 1 \in full
          /\ letters # {}
          /\ 10 * Cardinality(upper) > 8 * Cardinality(letters)
       THEN s ELSE <<>>

\* _is_standalone_bold_heading(line) or _is_allcaps_heading(line)
PseudoTitle(line) ==
    IF is_standalone_bold_heading(line) # <<>> THEN is_standalone_bold_heading(line)
    ELSE is_allcaps_heading(line)

\* _count_words: len(re.findall(r"\S+", s))
count_words(s) ==
    Cardinality({p \in 1..Len(s) : s[p] \notin WS /\ (p = 1 \/ s[p - 1] \in WS)})

(***************************************************************************)
(* Step 0: detect_mode.  The six _MD_HINTS, searched in the whole text.    *)
(***************************************************************************)
HintHeading(t) ==
    Rep(t, Many(t, Rep(t, Rep(t, LineStarts(t), WS, 0, 3), {"#"}, 1, 6), WS, 1),
        NonWS, 1, 1) # {}

HintFence(t) ==
    LET p0 == Rep(t, LineStarts(t), WS, 0, 3)
    IN Marker(t, p0, BQ) \cup Marker(t, p0, "~") # {}

HintList(t) ==
    LET p0 == Rep(t, LineStarts(t), WS, 0, 3)
        bullet == Rep(t, p0, {"-", "*", "+"}, 1, 1)
        number == Lit(t, Many(t, p0, Digit, 1), ".")
    IN Rep(t, Many(t, bullet \cup number, WS, 1), NonWS, 1, 1) # {}

HintQuote(t) ==
    Rep(t, Many(t, Lit(t, Rep(t, LineStarts(t), WS, 0, 3), ">"), WS, 1), NonWS, 1, 1) # {}

\* \[[^\]]+\]\([^)]+\) anywhere in the text
HintLink(t) ==
    LET p1 == Lit(t, 1..(Len(t) + 1), "[")
        p2 == Lit(t, Many(t, p1, Alphabet \ {"]"}, 1), "]")
        p3 == Lit(t, p2, "(")
    IN Lit(t, Many(t, p3, Alphabet \ {")"}, 1), ")") # {}

HintHr(t) ==
    Many(t, HrRun(t, Rep(t, LineStarts(t), WS, 0, 3)), WS, 0) \cap LineEnds(t) # {}

MARKDOWN == "markdown"

PLAIN == "plain"

\* None, as the mode argument
None == "None"

\* None, as an Optional[int] node id
NoNode == -1

BoolInt(b) == IF b THEN 1 ELSE 0

\* detect_mode that settles for one signal
detect_mode_one_hit(t) ==
    LET hits == BoolInt(HintHeading(t)) + BoolInt(HintFence(t)) + BoolInt(HintList(t))
                + BoolInt(HintQuote(t)) + BoolInt(HintLink(t)) + BoolInt(HintHr(t))
    IN IF hits >= 1 THEN MARKDOWN ELSE PLAIN

detect_mode(t) ==
    LET hits == BoolInt(HintHeading(t)) + BoolInt(HintFence(t)) + BoolInt(HintList(t))
                + BoolInt(HintQuote(t)) + BoolInt(HintLink(t)) + BoolInt(HintHr(t))
    IN IF hits >= 2 THEN MARKDOWN ELSE PLAIN

(***************************************************************************)
(* Step 1: atomize.  Line numbers, offsets and atom indices are 0-based as *)
(* in the source; TLA+ sequences are 1-based, hence the "+ 1" in accesses. *)
(***************************************************************************)
HEADING == "heading"

PSEUDO_HEADING == "pseudo_heading"

PARAGRAPH == "paragraph"

LIST_BLOCK == "list"

CODE_FENCE == "code_fence"

TABLE == "table"

HR == "hr"

BLANK == "blank"

\* lines[k].rstrip("\n")
Stripped(k) == rstrip_nl(lines[k + 1])

IsBlankLine(line) == strip(line) = <<>>

\* the table rule's two tests: a pipe row, and a separator on the next line
TableStart(k) ==
    /\ mode = MARKDOWN
    /\ RE_TABLE_ROW(Stripped(k))
    /\ k + 1 < Len(lines)
    /\ RE_TABLE_SEP(Stripped(k + 1))

\* which branch of the while loop (lines 199-309) takes line k: first match wins
Dispatch(k) ==
    LET line == Stripped(k)
    IN IF IsBlankLine(line) THEN BLANK
       ELSE IF RE_HR(line) THEN HR
       ELSE IF RE_FENCE(line) THEN CODE_FENCE
       ELSE IF mode = MARKDOWN /\ RE_HEADING(line) THEN HEADING
       ELSE IF PseudoTitle(line) # <<>> THEN PSEUDO_HEADING
       ELSE IF TableStart(k) THEN TABLE
       ELSE IF RE_LIST(line) THEN LIST_BLOCK
       ELSE PARAGRAPH

\* the line indices
LineNumbers == 0..(Len(lines) - 1)

\* an inner while loop: the first line from k on that is in the set stops of
\* the lines at which it breaks, or len(lines)
FirstStop(k, stops) ==
    LET S == {j \in stops : j >= k}
    IN IF S = {} THEN Len(lines) ELSE CHOOSE j \in S : \A j2 \in S : j <= j2

\* FenceEnd that takes a closing line of either marker
FenceEnd_any_marker(start) ==
    LET k == FirstStop(start + 1,
                       {j \in LineNumbers : \/ RE_FENCE_CLOSE(Stripped(j), BQ)
                                            \/ RE_FENCE_CLOSE(Stripped(j), "~")})
    IN IF k < Len(lines) THEN k + 1 ELSE k

FenceEnd(start) ==
    LET fence == FenceMarker(Stripped(start))
        k == FirstStop(start + 1, {j \in LineNumbers : RE_FENCE_CLOSE(Stripped(j), fence)})
    IN IF k < Len(lines) THEN k + 1 ELSE k

\* TableEnd that stops after the header and the separator
TableEnd_header_only(start) == start + 2

TableEnd(start) ==
    FirstStop(start + 2, {j \in LineNumbers : ~RE_TABLE_ROW(Stripped(j))})

ListEnd(start) ==
    FirstStop(start + 1,
              {j \in LineNumbers :
                  \/ IsBlankLine(Stripped(j))
                  \/ ~(RE_LIST(Stripped(j)) \/ RE_CONTINUATION(Stripped(j)))})

ParagraphEnd(start) ==
    FirstStop(start + 1,
              {j \in LineNumbers :
                  \/ IsBlankLine(Stripped(j))
                  \/ RE_HR(Stripped(j))
                  \/ RE_FENCE(Stripped(j))
                  \/ (mode = MARKDOWN /\ RE_HEADING(Stripped(j)))
                  \/ PseudoTitle(Stripped(j)) # <<>>
                  \/ RE_LIST(Stripped(j))
                  \/ TableStart(j)})

\* PopTo that leaves an entry of the pushed depth on the stack
RECURSIVE PopTo_deeper(_, _)
PopTo_deeper(stack, depth) ==
    IF stack # <<>> /\ stack[Len(stack)].depth > depth
    THEN PopTo_deeper(SubSeq(stack, 1, Len(stack) - 1), depth)
    ELSE stack

\* push_heading's while loop
RECURSIVE PopTo(_, _)
PopTo(stack, depth) ==
    IF stack # <<>> /\ stack[Len(stack)].depth >= depth
    THEN PopTo(SubSeq(stack, 1, Len(stack) - 1), depth)
    ELSE stack

\* push_heading that numbers a section by its place on the stack
push_heading_by_level(stack, depth, title) ==
    Append(PopTo(stack, depth),
           [depth |-> depth, node_id |-> Len(PopTo(stack, depth)) + 1, title |-> title])

push_heading(stack, depth, title) ==
    Append(PopTo(stack, depth), [depth |-> depth, node_id |-> next_node_id, title |-> title])

current_section_path_titles(stack) == [k \in 1..Len(stack) |-> stack[k].title]

current_section_path_ids(stack) == [k \in 1..Len(stack) |-> stack[k].node_id]

\* current_section_node_id that reads the bottom of the stack
current_section_node_id_bottom(stack) ==
    IF stack # <<>> THEN stack[1].node_id ELSE NoNode

current_section_node_id(stack) ==
    IF stack # <<>> THEN stack[Len(stack)].node_id ELSE NoNode

\* line 167
StartByte(start_line) ==
    IF start_line < Len(line_start_byte) THEN line_start_byte[start_line + 1] ELSE Len(text)

\* EndByte that takes the start of line end_line itself
EndByte_same_line(end_line) ==
    IF end_line < Len(line_start_byte) THEN line_start_byte[end_line + 1] ELSE Len(text)

\* lines 169-172: the start of the line after end_line, or the end of the text
EndByte(end_line) ==
    IF end_line + 1 < Len(line_start_byte) THEN line_start_byte[end_line + 2] ELSE Len(text)

\* Chunk with the slice's end exclusive: lines[start_line:end_line]
Chunk_exclusive(start_line, end_line) == Join(SubSeq(lines, start_line + 1, end_line))

\* line 174: "".join(lines[start_line:end_line + 1])
Chunk(start_line, end_line) == Join(SubSeq(lines, start_line + 1, end_line + 1))

\* the Atom that emit appends; stack is the heading stack at the call.
\* boundary_strength is in hundredths.
emit(atom_type, start_line, end_line, depth, can_cut_before, boundary_strength, stack) ==
    LET start_byte == StartByte(start_line)
        end_byte == EndByte(end_line)
        chunk == Chunk(start_line, end_line)
    IN [idx |-> idx,
        atom_type |-> atom_type,
        start_byte |-> start_byte,
        end_byte |-> end_byte,
        start_line |-> start_line,
        end_line |-> end_line,
        text |-> chunk,
        weight_chars |-> Len(chunk),
        weight_words |-> count_words(chunk),
        depth |-> depth,
        section_path |-> current_section_path_titles(stack),
        section_path_ids |-> current_section_path_ids(stack),
        section_node_id |-> current_section_node_id(stack),
        can_cut_before |-> can_cut_before,
        boundary_strength |-> boundary_strength]

\* lines 133-137
RECURSIVE LineStartBytes(_, _)
LineStartBytes(ls, b) ==
    IF ls = <<>> THEN <<>> ELSE <<b>> \o LineStartBytes(Tail(ls), b + Len(Head(ls)))

NoPolicy == [allow_pseudo |-> FALSE, allow_hr |-> FALSE,
             allow_list_table_code |-> FALSE, allow_paragraph_fallback |-> FALSE]

NoResult == [status |-> "none", cuts |-> <<>>, segments |-> <<>>, objective |-> <<>>]

\* main has not reached its split flow
NoCli == [split_relax |-> FALSE, allow_pseudo |-> FALSE, allow_hr |-> FALSE,
          stage |-> 0, tried |-> <<>>, outcomes |-> <<>>, exit |-> "none"]

\* lines 126-146: resolve the mode, split the text, set up the locals
AtomizeStart ==
    /\ pc = "start"
    /\ mode' = IF mode_arg = None THEN detect_mode(text) ELSE mode_arg
    /\ lines' = splitlines(text)
    /\ line_start_byte' = LineStartBytes(splitlines(text), 0)
    /\ i' = 0
    /\ atoms' = <<>>
    /\ idx' = 0
    /\ heading_stack' = <<>>
    /\ next_node_id' = 1
    /\ section_registry' = <<>>
    /\ pc' = "loop"
    /\ UNCHANGED <<text, mode_arg, policy, cands, N, weights, result, cli>>

\* one pass of the while loop that emits a block without touching the stack
EmitPlain(atom_type, end, can_cut_before, boundary_strength) ==
    /\ pc = "loop"
    /\ i < Len(lines)
    /\ Dispatch(i) = atom_type
    /\ atoms' = Append(atoms, emit(atom_type, i, end - 1, 0, can_cut_before,
                                   boundary_strength, heading_stack))
    /\ idx' = idx + 1
    /\ i' = end
    /\ UNCHANGED <<text, mode_arg, mode, lines, line_start_byte, heading_stack,
                   next_node_id, section_registry, pc, policy, cands, N, weights, result, cli>>

\* one pass that pushes a section, emits its atom and records it
EmitSection(atom_type, depth, title, boundary_strength) ==
    /\ pc = "loop"
    /\ i < Len(lines)
    /\ Dispatch(i) = atom_type
    /\ LET stack == push_heading(heading_stack, depth, title)
       IN /\ heading_stack' = stack
          /\ atoms' = Append(atoms, emit(atom_type, i, i, depth, TRUE,
                                         boundary_strength, stack))
          /\ section_registry' =
                 [k \in DOMAIN section_registry \cup {current_section_node_id(stack)} |->
                     IF k = current_section_node_id(stack) THEN idx
                     ELSE section_registry[k]]
    /\ next_node_id' = next_node_id + 1
    /\ idx' = idx + 1
    /\ i' = i + 1
    /\ UNCHANGED <<text, mode_arg, mode, lines, line_start_byte, pc,
                   policy, cands, N, weights, result, cli>>

\* lines 200-203
BlankLine == EmitPlain(BLANK, i + 1, FALSE, 0)

\* lines 206-209
HorizontalRule == EmitPlain(HR, i + 1, TRUE, 90)

\* lines 212-223
FencedCode == EmitPlain(CODE_FENCE, FenceEnd(i), TRUE, 60)

\* lines 226-235
MarkdownHeading ==
    EmitSection(HEADING, HeadingDepth(Stripped(i)), HeadingTitle(Stripped(i)), 100)

\* PseudoDepth without the cap at 6
PseudoDepth_uncapped ==
    IF heading_stack # <<>> THEN heading_stack[Len(heading_stack)].depth + 1 ELSE 1

\* lines 240-241
PseudoDepth ==
    LET parent_depth == IF heading_stack # <<>>
                        THEN heading_stack[Len(heading_stack)].depth ELSE 0
    IN IF parent_depth > 0
       THEN (IF parent_depth + 1 < 6 THEN parent_depth + 1 ELSE 6)
       ELSE 1

\* lines 238-249
PseudoHeading == EmitSection(PSEUDO_HEADING, PseudoDepth, PseudoTitle(Stripped(i)), 95)

\* lines 253-261
TableBlock == EmitPlain(TABLE, TableEnd(i), TRUE, 60)

\* lines 264-282
ListBlock == EmitPlain(LIST_BLOCK, ListEnd(i), TRUE, 50)

\* lines 285-309
Paragraph == EmitPlain(PARAGRAPH, ParagraphEnd(i), FALSE, 10)

\* the assertions of lines 321-332
SanityChecks ==
    \A node_id \in DOMAIN section_registry :
        LET atom_idx == section_registry[node_id]
        IN /\ 0 <= atom_idx /\ atom_idx < Len(atoms)
           /\ atoms[atom_idx + 1].section_node_id = node_id
           /\ atoms[atom_idx + 1].atom_type \in {HEADING, PSEUDO_HEADING}

\* lines 321-334: the loop is over; check the registry and return
AtomizeReturn ==
    /\ pc = "loop"
    /\ i >= Len(lines)
    /\ pc' = IF SanityChecks THEN "atomized" ELSE "AssertionError"
    /\ UNCHANGED <<text, mode_arg, mode, lines, line_start_byte, i, atoms, idx,
                   heading_stack, next_node_id, section_registry, policy, cands, N, weights, result, cli>>

(***************************************************************************)
(* partition.py.  A triple is <<non_heading_cuts, max_words, penalty_sum>>, *)
(* the penalty in tenths.                                                  *)
(***************************************************************************)
\* prefix_words that adds up the characters of the atoms
prefix_words_chars(ats) ==
    LET RECURSIVE Sum(_)
        Sum(k) == IF k = 0 THEN 0 ELSE Sum(k - 1) + ats[k].weight_chars
    IN [k \in 0..Len(ats) |-> Sum(k)]

\* pref of _prefix_words, as a function on 0..M
prefix_words(ats) ==
    LET RECURSIVE Sum(_)
        Sum(k) == IF k = 0 THEN 0 ELSE Sum(k - 1) + ats[k].weight_words
    IN [k \in 0..Len(ats) |-> Sum(k)]

is_heading_atom(a) == a.atom_type = HEADING

cut_tier(a) ==
    IF a.atom_type = HEADING THEN 0
    ELSE IF a.atom_type = PSEUDO_HEADING THEN 1
    ELSE IF a.atom_type = HR THEN 2
    ELSE 3

\* the body of build_cut_candidates' loop: is atom a appended?
Admitted(a, pol) ==
    /\ a.atom_type # BLANK
    /\ a.can_cut_before
    /\ \/ a.atom_type = HEADING
       \/ pol.allow_pseudo /\ a.atom_type = PSEUDO_HEADING
       \/ pol.allow_hr /\ a.atom_type = HR
       \/ pol.allow_list_table_code /\ a.atom_type \in {LIST_BLOCK, TABLE, CODE_FENCE}
       \/ pol.allow_paragraph_fallback /\ a.atom_type = PARAGRAPH

\* build_cut_candidates with the loop of line 72 started at 0: range(0, M)
build_cut_candidates_from0(ats, pol) ==
    LET RECURSIVE Loop(_)
        Loop(k) == IF k >= Len(ats) THEN <<>>
                   ELSE (IF Admitted(ats[k + 1], pol) THEN <<k>> ELSE <<>>) \o Loop(k + 1)
    IN Loop(0)

build_cut_candidates(ats, pol) ==
    LET RECURSIVE Loop(_)
        Loop(k) == IF k >= Len(ats) THEN <<>>
                   ELSE (IF Admitted(ats[k + 1], pol) THEN <<k>> ELSE <<>>) \o Loop(k + 1)
    IN Loop(1)

\* sorted(set(xs))
RECURSIVE SortedSet(_)
SortedSet(S) ==
    IF S = {} THEN <<>>
    ELSE LET m == CHOOSE x \in S : \A y \in S : x <= y
         IN <<m>> \o SortedSet(S \ {m})

Range(xs) == {xs[k] : k \in 1..Len(xs)}

\* tuple comparison a < b
LexLess(a, b) ==
    \/ a[1] < b[1]
    \/ a[1] = b[1] /\ a[2] < b[2]
    \/ a[1] = b[1] /\ a[2] = b[2] /\ a[3] < b[3]

\* INF = (10**9, 10**9, 1e30).  1e30 is beyond TLC's integers; the third
\* component is only compared when the first two are equal, and stands
\* above every penalty sum the model can reach.
INF == <<10^9, 10^9, 10^9>>

Max(a, b) == IF a >= b THEN a ELSE b

DefaultNonHeadingPenalty == 10

\* {0: 0.0, 1: 0.2, 2: 0.5, 3: 1.0}
DefaultTierPenalties == (0 :> 0) @@ (1 :> 2) @@ (2 :> 5) @@ (3 :> 10)

DefaultWeights ==
    [non_heading_penalty |-> DefaultNonHeadingPenalty, tier_penalties |-> DefaultTierPenalties]

\* weights a caller passes: no non-heading penalty, and tier penalties
\* {0: 0.5, 1: 0.0, 2: 0.2, 3: 0.1} that make a heading the dearest cut
OtherWeights ==
    [non_heading_penalty |-> 0,
     tier_penalties |-> (0 :> 5) @@ (1 :> 0) @@ (2 :> 2) @@ (3 :> 1)]

WeightChoices == {DefaultWeights, OtherWeights}

\* cut_cost that takes a pseudo-heading for a heading (tier <= 1)
cut_cost_by_tier(ats, i_boundary, tier_penalties) ==
    IF i_boundary = Len(ats) \/ i_boundary = 0 THEN <<0, 0>>
    ELSE LET a == ats[i_boundary + 1]
             tier == cut_tier(a)
         IN <<IF tier <= 1 THEN 0 ELSE 1,
              IF tier \in DOMAIN tier_penalties THEN tier_penalties[tier] ELSE 10>>

\* cut_cost(i_boundary): <<is_non_heading, penalty>>
cut_cost(ats, i_boundary, tier_penalties) ==
    IF i_boundary = Len(ats) \/ i_boundary = 0 THEN <<0, 0>>
    ELSE LET a == ats[i_boundary + 1]
             tier == cut_tier(a)
         IN <<IF is_heading_atom(a) THEN 0 ELSE 1,
              IF tier \in DOMAIN tier_penalties THEN tier_penalties[tier] ELSE 10>>

\* Better that compares the largest segment before the non-heading cuts
Better_words_first(cand, best) ==
    LexLess(<<cand[2], cand[1], cand[3]>>, <<best[2], best[1], best[3]>>)

\* the comparison of line 189 that lets a candidate replace the best so far
Better(cand, best) == LexLess(cand, best)

\* seg_words(j, k): the words of atoms[pos[j] : pos[k]] (j, k index pos from 0)
seg_words(ats, pos, j, k) == prefix_words(ats)[pos[k + 1]] - prefix_words(ats)[pos[j + 1]]

\* an entry of dp and parent that no assignment has reached
Unset == [v |-> INF, parent |-> -1]

\* DPBase with the loop of line 165 started at 0: range(0, L)
DPBase_from0(ats, pos) ==
    [k \in 0..(Len(pos) - 1) |-> [v |-> <<0, seg_words(ats, pos, 0, k), 0>>, parent |-> 0]]

\* lines 165-168: dp[1][i], parent[1][i] for i in range(1, L)
DPBase(ats, pos) ==
    [k \in 0..(Len(pos) - 1) |->
        IF k >= 1 THEN [v |-> <<0, seg_words(ats, pos, 0, k), 0>>, parent |-> 0]
        ELSE Unset]

\* lines 184-188: the triple of taking boundary pos[j] as the start of the
\* segment that ends at pos[k]
Combine(ats, pos, prev, j, k, non_heading_penalty, tier_penalties) ==
    LET cost == cut_cost(ats, pos[j + 1], tier_penalties)
    IN <<prev[1] + cost[1],
         Max(prev[2], seg_words(ats, pos, j, k)),
         prev[3] + non_heading_penalty * cost[1] + cost[2]>>

\* the dp and parent tables of lines 160-193: dp[k][i] is DPTable[k][i].v and
\* parent[k][i] is DPTable[k][i].parent, for k in 1..n and i in 0..L-1
DPTable(ats, n, pos, non_heading_penalty, tier_penalties) ==
    LET \* the loop over j of lines 176-191
        RECURSIVE Inner(_, _, _, _)
        Inner(prev, k, j, best) ==
            IF j >= k THEN best
            ELSE IF prev[j].v = INF THEN Inner(prev, k, j + 1, best)
            ELSE LET cand == Combine(ats, pos, prev[j].v, j, k,
                                     non_heading_penalty, tier_penalties)
                 IN Inner(prev, k, j + 1,
                          IF Better(cand, best.v) THEN [v |-> cand, parent |-> j] ELSE best)
        Row(prev) == [k \in 0..(Len(pos) - 1) |->
                         IF k >= 1 THEN Inner(prev, k, 0, Unset) ELSE Unset]
        RECURSIVE Rows(_)
        Rows(k) == IF k = 1 THEN <<DPBase(ats, pos)>>
                   ELSE LET below == Rows(k - 1) IN Append(below, Row(below[k - 1]))
    IN Rows(n)

\* Boundaries without the boundaries.reverse() of line 209
Boundaries_unreversed(table, n, pos) ==
    LET RECURSIVE Back(_, _)
        Back(k, cur_i) ==
            IF k <= 1 THEN <<>>
            ELSE LET j == table[k][cur_i].parent
                 IN IF j < 0 THEN <<-1>>
                    ELSE LET rest == Back(k - 1, j)
                         IN IF rest = <<-1>> THEN rest ELSE <<pos[j + 1]>> \o rest
    IN Back(n, Len(pos) - 1)

\* lines 201-209: follow the parent pointers from (n, L-1); <<-1>> when one is unset
Boundaries(table, n, pos) ==
    LET RECURSIVE Back(_, _)
        Back(k, cur_i) ==
            IF k <= 1 THEN <<>>
            ELSE LET j == table[k][cur_i].parent
                 IN IF j < 0 THEN <<-1>>
                    ELSE LET rest == Back(k - 1, j)
                         IN IF rest = <<-1>> THEN rest ELSE Append(rest, pos[j + 1])
    IN Back(n, Len(pos) - 1)

\* one Segment of lines 215-226
Segment(ats, sidx, s, e) ==
    [seg_idx |-> sidx,
     start_atom |-> s,
     end_atom_excl |-> e,
     words |-> prefix_words(ats)[e] - prefix_words(ats)[s],
     start_path_ids |-> IF s < Len(ats) THEN ats[s + 1].section_path_ids ELSE <<>>,
     start_path_titles |-> IF s < Len(ats) THEN ats[s + 1].section_path ELSE <<>>]

Raised(error) == [status |-> error, cuts |-> <<>>, segments |-> <<>>, objective |-> <<>>]

\* partition_into_n for n >= 1: the PartitionResult, or the exception raised
partition_into_n(ats, n, candidates, non_heading_penalty, tier_penalties) ==
    LET M == Len(ats)
    IN IF n = 1
       THEN \* lines 117-127; atoms[0] of an empty list raises IndexError
            IF M = 0 THEN Raised("IndexError")
            ELSE LET seg == Segment(ats, 0, 0, M)
                 IN [status |-> "ok", cuts |-> <<>>, segments |-> <<seg>>,
                     objective |-> <<0, seg.words, 0>>]
       ELSE LET pos == <<0>> \o SortedSet(Range(candidates)) \o <<M>>
                table == DPTable(ats, n, pos, non_heading_penalty, tier_penalties)
                obj == table[n][Len(pos) - 1].v
                boundaries == Boundaries(table, n, pos)
                starts == <<0>> \o boundaries
                ends == boundaries \o <<M>>
            IN IF obj = INF THEN Raised("ValueError")
               ELSE IF boundaries = <<-1>> THEN Raised("RuntimeError")
               ELSE [status |-> "ok",
                     cuts |-> boundaries,
                     segments |-> [k \in 1..Len(starts) |->
                                      Segment(ats, k - 1, starts[k], ends[k])],
                     objective |-> obj]

MaxN == 4

Policies == [allow_pseudo : BOOLEAN, allow_hr : BOOLEAN,
             allow_list_table_code : BOOLEAN, allow_paragraph_fallback : BOOLEAN]

\* a caller builds the candidates from the atoms, under some policy
BuildCandidates ==
    /\ pc = "atomized"
    /\ \E pol \in Policies :
          /\ policy' = pol
          /\ cands' = build_cut_candidates(atoms, pol)
    /\ pc' = "candidates"
    /\ UNCHANGED <<text, mode_arg, mode, lines, line_start_byte, i, atoms, idx,
                   heading_stack, next_node_id, section_registry, N, weights, result, cli>>

MaxSupplied == 2

\* a caller passes candidates of its own: any list of at most MaxSupplied
\* indices in [1, M-1], in any order, repeats allowed
SupplyCandidates ==
    /\ pc = "atomized"
    /\ \E len \in 0..MaxSupplied :
          \E cs \in [1..len -> 1..(Len(atoms) - 1)] : cands' = cs
    /\ pc' = "supplied"
    /\ UNCHANGED <<text, mode_arg, mode, lines, line_start_byte, i, atoms, idx,
                   heading_stack, next_node_id, section_registry, policy, N, weights,
                   result, cli>>

\* a caller partitions into n segments, with the default weights or its own
Partition ==
    /\ pc \in {"candidates", "supplied"}
    /\ \E n \in 1..MaxN, w \in WeightChoices :
          /\ N' = n
          /\ weights' = w
          /\ result' = partition_into_n(atoms, n, cands, w.non_heading_penalty,
                                         w.tier_penalties)
    /\ pc' = "partitioned"
    /\ UNCHANGED <<text, mode_arg, mode, lines, line_start_byte, i, atoms, idx,
                   heading_stack, next_node_id, section_registry, policy, cands, cli>>

(***************************************************************************)
(* run_atomizer.py: the split flow of main.                                *)
(***************************************************************************)
\* the stages with relax 1 and relax 2 in each other's place
CliPolicy_paragraphs_first(stage, allow_pseudo, allow_hr) ==
    [allow_pseudo |-> allow_pseudo,
     allow_hr |-> allow_hr,
     allow_list_table_code |-> stage >= 3,
     allow_paragraph_fallback |-> stage >= 2]

\* the flags of the build_cut_candidates call of each stage: 1 is the strict
\* call (lines 103-109), 2 relax 1 (lines 118-124), 3 relax 2 (lines 129-135)
CliPolicy(stage, allow_pseudo, allow_hr) ==
    [allow_pseudo |-> allow_pseudo,
     allow_hr |-> allow_hr,
     allow_list_table_code |-> stage >= 2,
     allow_paragraph_fallback |-> stage >= 3]

\* lines 86-87 and 97-109: main has atomized the text in the detected mode;
\* with --split it reads the flags and builds the strict candidates
CliSplit ==
    /\ pc = "atomized"
    /\ mode_arg = detect_mode(text)
    /\ \E n \in 1..MaxN, split_relax \in BOOLEAN, split_no_pseudo \in BOOLEAN,
          split_no_hr \in BOOLEAN :
          /\ N' = n
          /\ cli' = [split_relax |-> split_relax,
                     allow_pseudo |-> ~split_no_pseudo,
                     allow_hr |-> ~split_no_hr,
                     stage |-> 1,
                     tried |-> <<>>,
                     outcomes |-> <<>>,
                     exit |-> "none"]
          /\ policy' = CliPolicy(1, ~split_no_pseudo, ~split_no_hr)
          /\ cands' = build_cut_candidates(atoms, CliPolicy(1, ~split_no_pseudo, ~split_no_hr))
    /\ pc' = "cli_try"
    /\ UNCHANGED <<text, mode_arg, mode, lines, line_start_byte, i, atoms, idx,
                   heading_stack, next_node_id, section_registry, weights, result>>

\* the except clauses: line 114 catches the strict call's ValueError and goes
\* on only with --split-relax (lines 115-116); line 127 catches relax 1's;
\* nothing catches relax 2's, nor any other exception
Caught(status) ==
    /\ status = "ValueError"
    /\ \/ cli.stage = 1 /\ cli.split_relax
       \/ cli.stage = 2

\* lines 113, 126, 136: one partition_into_n call with the default weights;
\* its result is printed (line 138, exit 0) or its exception handled
CliAttempt ==
    /\ pc = "cli_try"
    /\ LET r == partition_into_n(atoms, N, cands, DefaultNonHeadingPenalty,
                                 DefaultTierPenalties)
       IN /\ result' = r
          /\ cli' = [cli EXCEPT !.tried = Append(@, policy),
                                !.outcomes = Append(@, r.status),
                                !.exit = IF r.status = "ok" THEN "0"
                                         ELSE IF Caught(r.status) THEN "none"
                                         ELSE "nonzero"]
          /\ pc' = IF r.status = "ok" THEN "cli_done"
                   ELSE IF Caught(r.status) THEN "cli_relax"
                   ELSE "cli_failed"
    /\ UNCHANGED <<text, mode_arg, mode, lines, line_start_byte, i, atoms, idx,
                   heading_stack, next_node_id, section_registry, policy, cands, N,
                   weights>>

\* lines 117-124 and 128-135: build the candidates of the next stage
CliRelax ==
    /\ pc = "cli_relax"
    /\ cli' = [cli EXCEPT !.stage = @ + 1]
    /\ policy' = CliPolicy(cli.stage + 1, cli.allow_pseudo, cli.allow_hr)
    /\ cands' = build_cut_candidates(atoms, CliPolicy(cli.stage + 1, cli.allow_pseudo,
                                                      cli.allow_hr))
    /\ pc' = "cli_try"
    /\ UNCHANGED <<text, mode_arg, mode, lines, line_start_byte, i, atoms, idx,
                   heading_stack, next_node_id, section_registry, N, weights, result>>

(***************************************************************************)
(* The inputs: every text of at most MaxLines lines of the catalogue, and  *)
(* a set of documents (those of the specification's scenarios first).      *)
(***************************************************************************)
\* ''
LineBlank == <<>>

\* 'a b'
LinePara == <<"a", " ", "b">>

\* '# A'
LineHeading == <<"#", " ", "A">>

\* '---'
LineHr == <<"-", "-", "-">>

\* '**T**'
LineBold == <<"*", "*", "T", "*", "*">>

\* '- x'
LineList == <<"-", " ", "x">>

\* '<BQ><BQ><BQ>'
LineFence == <<BQ, BQ, BQ>>

\* '  c'
LineIndented == <<" ", " ", "c">>

\* 'AB'
LineCaps == <<"A", "B">>

\* '## B'
LineSub == <<"#", "#", " ", "B">>

Catalogue == {LineBlank, LinePara, LineHeading, LineHr, LineBold, LineList, LineFence, LineIndented, LineCaps, LineSub}

\* '# A\n\npar1\n\n# B\n\npar2\n'
DocTwoHeadings ==
    <<"#", " ", "A", NL, NL, "p", "a", "r", "1", NL, NL, "#", " ", "B", NL, NL, "p", "a", "r", "2", NL>>

\* '**Intro**\n\nHello world.\n'
DocPseudo ==
    <<"*", "*", "I", "n", "t", "r", "o", "*", "*", NL, NL, "H", "e", "l", "l", "o", " ", "w", "o", "r", "l", "d", ".", NL>>

\* '<BQ><BQ><BQ>\n# not a heading\n<BQ><BQ><BQ>\n'
DocFence ==
    <<BQ, BQ, BQ, NL, "#", " ", "n", "o", "t", " ", "a", " ", "h", "e", "a", "d", "i", "n", "g", NL, BQ, BQ, BQ, NL>>

\* '# A\n## B\n### C\n# D\n'
DocNesting ==
    <<"#", " ", "A", NL, "#", "#", " ", "B", NL, "#", "#", "#", " ", "C", NL, "#", " ", "D", NL>>

\* '| a | b |\n|---|---|\n| 1 | 2 |\ntext\n'
DocTable ==
    <<"|", " ", "a", " ", "|", " ", "b", " ", "|", NL, "|", "-", "-", "-", "|", "-", "-", "-", "|", NL, "|", " ", "1", " ", "|", " ", "2", " ", "|", NL, "t", "e", "x", "t", NL>>

\* '\n**T**\n---\n# H\n'
DocTiers ==
    <<NL, "*", "*", "T", "*", "*", NL, "-", "-", "-", NL, "#", " ", "H", NL>>

\* 'a b c\n# A\nAB\n- x\n  c\n---\n**T**\na\n## B\na b\n'
DocMixed ==
    <<"a", " ", "b", " ", "c", NL, "#", " ", "A", NL, "A", "B", NL, "-", " ", "x", NL, " ", " ", "c", NL, "-", "-", "-", NL, "*", "*", "T", "*", "*", NL, "a", NL, "#", "#", " ", "B", NL, "a", " ", "b", NL>>

\* '# A\n- x\n~~~\na'
DocUnclosed ==
    <<"#", " ", "A", NL, "-", " ", "x", NL, "~", "~", "~", NL, "a">>

\* '~~~\n<BQ><BQ><BQ>\n~~~\n1. x\n'
DocOtherFence ==
    <<"~", "~", "~", NL, BQ, BQ, BQ, NL, "~", "~", "~", NL, "1", ".", " ", "x", NL>>

\* '> a\n[a](b)\n'
DocQuoteLink ==
    <<">", " ", "a", NL, "[", "a", "]", "(", "b", ")", NL>>

\* '###### A\n**T**\nAB\n### C\n'
DocDeep ==
    <<"#", "#", "#", "#", "#", "#", " ", "A", NL, "*", "*", "T", "*", "*", NL, "A", "B", NL, "#", "#", "#", " ", "C", NL>>

\* 'A\nAB\nA1\n12\n'
DocCaps ==
    <<"A", NL, "A", "B", NL, "A", "1", NL, "1", "2", NL>>

\* 'x\n| a |\n|-|-|\n| 1 |\n| 2 |\n\n| b |\n| c |'
DocTableRun ==
    <<"x", NL, "|", " ", "a", " ", "|", NL, "|", "-", "|", "-", "|", NL, "|", " ", "1", " ", "|", NL, "|", " ", "2", " ", "|", NL, NL, "|", " ", "b", " ", "|", NL, "|", " ", "c", " ", "|">>

\* '<BQ><BQ><BQ>a\n<BQ><BQ><BQ>a\n~~~\n# A\n  <BQ><BQ><BQ> \nAB\n'
DocFenceInfo ==
    <<BQ, BQ, BQ, "a", NL, BQ, BQ, BQ, "a", NL, "~", "~", "~", NL, "#", " ", "A", NL, " ", " ", BQ, BQ, BQ, " ", NL, "A", "B", NL>>

\* '- x\n  <BQ><BQ><BQ>\n# A\n<BQ><BQ><BQ>\n'
DocListFence ==
    <<"-", " ", "x", NL, " ", " ", BQ, BQ, BQ, NL, "#", " ", "A", NL, BQ, BQ, BQ, NL>>

\* '### C\n# A\n### C\n**T**\n'
DocSkip ==
    <<"#", "#", "#", " ", "C", NL, "#", " ", "A", NL, "#", "#", "#", " ", "C", NL, "*", "*", "T", "*", "*", NL>>

\* '(NOTE)\n\n(NOTE)\nA\nNOTE:\nA-1\nAb\n'
DocCapsEdge ==
    <<"(", "N", "O", "T", "E", ")", NL, NL, "(", "N", "O", "T", "E", ")", NL, "A", NL, "N", "O", "T", "E", ":", NL, "A", "-", "1", NL, "A", "b", NL>>

\* 81 times 'A', a newline, 80 times 'A', a newline
DocLongCaps ==
    <<"A", "A", "A", "A", "A", "A", "A", "A", "A", "A", "A", "A", "A", "A", "A", "A", "A", "A", "A", "A", "A", "A", "A", "A", "A", "A", "A", "A", "A", "A", "A", "A", "A", "A", "A", "A", "A", "A", "A", "A", "A", "A", "A", "A", "A", "A", "A", "A", "A", "A", "A", "A", "A", "A", "A", "A", "A", "A", "A", "A", "A", "A", "A", "A", "A", "A", "A", "A", "A", "A", "A", "A", "A", "A", "A", "A", "A", "A", "A", "A", "A", NL, "A", "A", "A", "A", "A", "A", "A", "A", "A", "A", "A", "A", "A", "A", "A", "A", "A", "A", "A", "A", "A", "A", "A", "A", "A", "A", "A", "A", "A", "A", "A", "A", "A", "A", "A", "A", "A", "A", "A", "A", "A", "A", "A", "A", "A", "A", "A", "A", "A", "A", "A", "A", "A", "A", "A", "A", "A", "A", "A", "A", "A", "A", "A", "A", "A", "A", "A", "A", "A", "A", "A", "A", "A", "A", "A", "A", "A", "A", "A", "A", NL>>

Fixtures ==
    {DocTwoHeadings,
     DocPseudo,
     DocFence,
     DocNesting,
     DocTable,
     DocTiers,
     DocMixed,
     DocUnclosed,
     DocOtherFence,
     DocQuoteLink,
     DocDeep,
     DocCaps,
     DocTableRun,
     DocFenceInfo,
     DocListFence,
     DocSkip,
     DocCapsEdge,
     DocLongCaps}


MaxLines == 2

GeneratedTexts ==
    {Join([k \in 1..Len(ls) |-> ls[k] \o <<NL>>]) :
        ls \in UNION {[1..n -> Catalogue] : n \in 0..MaxLines}}

Texts == GeneratedTexts \cup Fixtures

Init ==
    /\ text \in Texts
    /\ mode_arg \in {None, MARKDOWN, PLAIN}
    /\ mode = mode_arg
    /\ lines = <<>>
    /\ line_start_byte = <<>>
    /\ i = 0
    /\ atoms = <<>>
    /\ idx = 0
    /\ heading_stack = <<>>
    /\ next_node_id = 1
    /\ section_registry = <<>>
    /\ pc = "start"
    /\ policy = NoPolicy
    /\ cands = <<>>
    /\ N = 0
    /\ weights = DefaultWeights
    /\ result = NoResult
    /\ cli = NoCli

Next ==
    \/ AtomizeStart
    \/ BlankLine
    \/ HorizontalRule
    \/ FencedCode
    \/ MarkdownHeading
    \/ PseudoHeading
    \/ TableBlock
    \/ ListBlock
    \/ Paragraph
    \/ AtomizeReturn
    \/ BuildCandidates
    \/ SupplyCandidates
    \/ Partition
    \/ CliSplit
    \/ CliAttempt
    \/ CliRelax

Spec == Init /\ [][Next]_vars

(***************************************************************************)
(* Properties of the partitioner.                                          *)
(***************************************************************************)
Partitioned == pc = "partitioned"

Succeeded == Partitioned /\ result.status = "ok"

\* the sum of the values of a function with a finite domain
RECURSIVE Sum(_)
Sum(f) ==
    IF DOMAIN f = {} THEN 0
    ELSE LET x == CHOOSE y \in DOMAIN f : TRUE
         IN f[x] + Sum([y \in DOMAIN f \ {x} |-> f[y]])

\* the largest value of a function with a finite, non-empty domain
Largest(f) == CHOOSE m \in {f[x] : x \in DOMAIN f} : \A x \in DOMAIN f : f[x] <= m

NonHeading(ats, c) == IF ats[c + 1].atom_type = HEADING THEN 0 ELSE 1

\* the words of atoms[s : e]
WordsBetween(ats, s, e) ==
    Sum([k \in s..(e - 1) |-> ats[k + 1].weight_words])

\* the penalty of one cut under the weights of the call, in tenths
CutPenalty(ats, c) ==
    weights.tier_penalties[cut_tier(ats[c + 1])]
        + weights.non_heading_penalty * NonHeading(ats, c)

\* the objective of cutting ats at the set S of atom indices, by the stated
\* cost function: <<non-heading cuts, largest segment, penalty sum>>
StatedObjective(ats, S) ==
    LET bs == SortedSet(S \cup {0, Len(ats)})
    IN <<Sum([c \in S |-> NonHeading(ats, c)]),
         Largest([k \in 1..(Len(bs) - 1) |-> WordsBetween(ats, bs[k], bs[k + 1])]),
         Sum([c \in S |-> CutPenalty(ats, c)])>>

\* C1: a successful partition into N >= 2 segments returns a lexicographically
\* minimal objective: no choice of N-1 distinct candidates as cuts has a
\* smaller triple under the stated cost function.
C1_Optimal ==
    (Succeeded /\ N >= 2) =>
        \A S \in SUBSET Range(cands) :
            Cardinality(S) = N - 1 => ~LexLess(StatedObjective(atoms, S), result.objective)

\* C2: a successful partition returns N-1 cuts, strictly increasing, each one
\* of the supplied candidates, and N segments.
C2_CutsWellFormed ==
    Succeeded =>
        /\ Len(result.cuts) = N - 1
        /\ \A k \in 1..(Len(result.cuts) - 1) : result.cuts[k] < result.cuts[k + 1]
        /\ \A k \in 1..Len(result.cuts) : result.cuts[k] \in Range(cands)
        /\ Len(result.segments) = N

C2_Witness == Succeeded /\ N >= 3 /\ Len(cands) > N - 1

C4_InfeasibleIff ==
    (Partitioned /\ N >= 2) =>
        /\ result.status \in {"ok", "ValueError"}
        /\ result.status = "ValueError" <=> N > Cardinality(Range(cands)) + 1
        /\ result.status = "ValueError" => result = Raised("ValueError")
        /\ (atoms = <<>> \/ cands = <<>>) => result.status = "ValueError"
        /\ result.status = "ok" => Range(result.cuts) \subseteq Range(cands)

C4_Witness ==
    /\ Partitioned
    /\ result.status = "ValueError"
    /\ cands # <<>>
    /\ N = Len(cands) + 2

\* C5: for every atom list, the empty one included, N = 1 returns the trivial
\* partition: no cuts, one segment [0, M) holding all the words, objective
\* <<0, total words, 0>>.
C5_TrivialPartition ==
    (Partitioned /\ N = 1) =>
        /\ result.status = "ok"
        /\ result.cuts = <<>>
        /\ Len(result.segments) = 1
        /\ result.segments[1].start_atom = 0
        /\ result.segments[1].end_atom_excl = Len(atoms)
        /\ result.segments[1].words = WordsBetween(atoms, 0, Len(atoms))
        /\ result.objective = <<0, WordsBetween(atoms, 0, Len(atoms)), 0>>

(***************************************************************************)
(* Properties of the atomizer.                                             *)
(***************************************************************************)
\* atomize has returned its atoms
Returned == pc \in {"atomized", "candidates", "supplied", "partitioned"}

AtomTypes == [k \in 1..Len(atoms) |-> atoms[k].atom_type]

\* C6: the atoms tile the document: idx counts 0.., the first atom starts at
\* offset 0 and line 0, each atom ends where the next starts (offsets and
\* lines), start_line <= end_line, and once atomize has returned the last atom
\* ends at len(text) (with no atom only for the empty text).
C6_Tiling ==
    /\ \A k \in 1..Len(atoms) :
          /\ atoms[k].idx = k - 1
          /\ atoms[k].start_line <= atoms[k].end_line
    /\ atoms # <<>> => atoms[1].start_byte = 0 /\ atoms[1].start_line = 0
    /\ \A k \in 1..(Len(atoms) - 1) :
          /\ atoms[k].end_byte = atoms[k + 1].start_byte
          /\ atoms[k].end_line + 1 = atoms[k + 1].start_line
    /\ (Returned /\ atoms # <<>>) => atoms[Len(atoms)].end_byte = Len(text)
    /\ (Returned /\ atoms = <<>>) => text = <<>>

C6_Witness ==
    /\ pc = "atomized"
    /\ Len(atoms) >= 3
    /\ \E k \in 1..Len(atoms) : atoms[k].end_line > atoms[k].start_line
    /\ text[Len(text)] # NL

\* C7: every atom's text is the slice text[start_byte:end_byte], and the
\* texts of the returned atoms, concatenated in order, are the text.
C7_TextRoundTrip ==
    /\ \A k \in 1..Len(atoms) :
          atoms[k].text = SubSeq(text, atoms[k].start_byte + 1, atoms[k].end_byte)
    /\ Returned => Join([k \in 1..Len(atoms) |-> atoms[k].text]) = text

C7_Witness ==
    /\ pc = "atomized"
    /\ Len(atoms) >= 2
    /\ \E k \in 1..Len(atoms) : atoms[k].end_line > atoms[k].start_line + 1
    /\ Join([k \in 1..Len(atoms) |-> atoms[k].text]) = text

(***************************************************************************)
(* Properties of the candidate builder.                                    *)
(***************************************************************************)
\* build_cut_candidates has returned its list
Built == pc \in {"candidates", "partitioned"} /\ policy # NoPolicy

\* C8: the candidates are strictly increasing indices in [1, M-1], and an
\* index i >= 1 whose atom is no paragraph is a candidate iff the atom is
\* not blank, has can_cut_before, and is a heading, or a pseudo-heading with
\* allow_pseudo, or an hr with allow_hr, or a list, table or code fence with
\* allow_list_table_code.
C8_Candidates ==
    Built =>
        /\ \A k \in 1..(Len(cands) - 1) : cands[k] < cands[k + 1]
        /\ \A k \in 1..Len(cands) : cands[k] >= 1 /\ cands[k] <= Len(atoms) - 1
        /\ \A c \in 1..(Len(atoms) - 1) :
              LET a == atoms[c + 1]
              IN a.atom_type # PARAGRAPH =>
                   (c \in Range(cands) <=>
                      /\ a.atom_type # BLANK
                      /\ a.can_cut_before
                      /\ \/ a.atom_type = HEADING
                         \/ a.atom_type = PSEUDO_HEADING /\ policy.allow_pseudo
                         \/ a.atom_type = HR /\ policy.allow_hr
                         \/ /\ a.atom_type \in {LIST_BLOCK, TABLE, CODE_FENCE}
                            /\ policy.allow_list_table_code)

C8_Witness ==
    /\ pc = "candidates"
    /\ Len(atoms) >= 3
    /\ atoms[1].atom_type \in {HEADING, PSEUDO_HEADING}
    /\ cands # <<>>
    /\ \E c \in 1..(Len(atoms) - 1) :
          /\ atoms[c + 1].atom_type \in {PSEUDO_HEADING, HR, LIST_BLOCK}
          /\ c \notin Range(cands)

\* C9: a paragraph atom at an index i >= 1 is a candidate if and only if
\* allow_paragraph_fallback is set.
C9_ParagraphFallback ==
    Built =>
        \A c \in 1..(Len(atoms) - 1) :
            atoms[c + 1].atom_type = PARAGRAPH =>
                (c \in Range(cands) <=> policy.allow_paragraph_fallback)

(***************************************************************************)
(* The two-headings scenario.                                              *)
(***************************************************************************)
DefaultPolicy == [allow_pseudo |-> TRUE, allow_hr |-> TRUE,
                  allow_list_table_code |-> FALSE, allow_paragraph_fallback |-> FALSE]

\* the atoms, registry and two-way partition the scenario expects
TwoHeadingsAtoms ==
    /\ AtomTypes = <<HEADING, BLANK, PARAGRAPH, BLANK, HEADING, BLANK, PARAGRAPH>>
    /\ section_registry = (1 :> 0) @@ (2 :> 4)

TwoHeadingsSplit ==
    /\ result.status = "ok"
    /\ result.cuts = <<4>>
    /\ result.objective = <<0, Max(WordsBetween(atoms, 0, 4), WordsBetween(atoms, 4, 7)), 0>>

\* no line carries markup other than an ATX heading
OnlyAtxMarkup ==
    \A k \in 0..(Len(lines) - 1) :
        LET line == Stripped(k)
        IN \/ RE_HEADING(line)
           \/ ~(\/ RE_HR(line) \/ RE_FENCE(line) \/ PseudoTitle(line) # <<>>
                \/ RE_LIST(line) \/ RE_TABLE_ROW(line))

\* one heading atom per ATX line
HeadingPerAtxLine ==
    \A k \in 0..(Len(lines) - 1) :
        RE_HEADING(Stripped(k)) <=>
            \E n \in 1..Len(atoms) : /\ atoms[n].atom_type = HEADING
                                     /\ atoms[n].start_line = k
                                     /\ atoms[n].end_line = k

\* C10 as stated: with the mode left to auto-detection, the two-headings text
\* yields heading, blank, paragraph, blank, heading, blank, paragraph and the
\* registry {1 -> 0, 2 -> 4}, N = 2 under the default policy cuts at [4] with
\* objective <<0, larger segment, 0>>, and any document whose only markup is
\* ATX heading lines gets one heading atom per ATX line.
C10_TwoHeadingsAuto ==
    /\ (Returned /\ text = DocTwoHeadings /\ mode_arg = None) => TwoHeadingsAtoms
    /\ (Partitioned /\ text = DocTwoHeadings /\ mode_arg = None
           /\ policy = DefaultPolicy /\ N = 2
           /\ weights = DefaultWeights) => TwoHeadingsSplit
    /\ (Returned /\ mode_arg = None /\ OnlyAtxMarkup) => HeadingPerAtxLine

\* C10 amended: the scenario's atoms, registry and split are those of markdown
\* mode; auto-detection finds one signal in the text, takes it for plain, and
\* no heading atom or registry entry results.  In markdown mode a document
\* whose only markup is ATX heading lines gets one heading atom per ATX line.
C10_TwoHeadingsMarkdown ==
    /\ (Returned /\ text = DocTwoHeadings /\ mode = MARKDOWN) => TwoHeadingsAtoms
    /\ (Partitioned /\ text = DocTwoHeadings /\ mode = MARKDOWN
           /\ policy = DefaultPolicy /\ N = 2
           /\ weights = DefaultWeights) => TwoHeadingsSplit
    /\ (Returned /\ text = DocTwoHeadings /\ mode_arg = None) =>
           /\ mode = PLAIN
           /\ AtomTypes = <<PARAGRAPH, BLANK, PARAGRAPH, BLANK, PARAGRAPH, BLANK, PARAGRAPH>>
           /\ section_registry = <<>>
    /\ (Returned /\ mode = MARKDOWN /\ OnlyAtxMarkup) => HeadingPerAtxLine

C10_Witness ==
    /\ Partitioned
    /\ text = DocTwoHeadings
    /\ mode_arg = MARKDOWN
    /\ policy = DefaultPolicy
    /\ N = 2
    /\ weights = DefaultWeights
    /\ result.cuts = <<4>>

(***************************************************************************)
(* Tables and fences.                                                      *)
(***************************************************************************)
\* atomize is in its loop or has just returned; the atoms, the stack and the
\* registry change in no other state
Atomizing == pc \in {"loop", "atomized"}

\* a pipe-delimited row at line k with a separator row on the next line
PipeTableStart(k) ==
    /\ RE_TABLE_ROW(Stripped(k))
    /\ k + 1 < Len(lines)
    /\ RE_TABLE_SEP(Stripped(k + 1))

\* every atom that starts at such a row is a table atom that takes the
\* header, the separator and all the consecutive pipe rows after them
TablesConsumeRows ==
    \A k \in 1..Len(atoms) :
        LET a == atoms[k]
        IN PipeTableStart(a.start_line) =>
              /\ a.atom_type = TABLE
              /\ a.end_line >= a.start_line + 1
              /\ \A j \in (a.start_line + 2)..a.end_line : RE_TABLE_ROW(Stripped(j))
              /\ a.end_line + 1 < Len(lines) => ~RE_TABLE_ROW(Stripped(a.end_line + 1))

\* the atoms of the table scenario: a table of lines 0..2, then "text\n"
TableScenario ==
    /\ AtomTypes = <<TABLE, PARAGRAPH>>
    /\ atoms[1].start_line = 0
    /\ atoms[1].end_line = 2
    /\ atoms[2].text = <<"t", "e", "x", "t", NL>>

\* C11 as stated: with the mode left to auto-detection, the table text yields
\* one table atom of three lines and the paragraph "text\n", and a pipe row
\* followed by a separator row starts a table atom that takes all the
\* consecutive pipe rows after it.
C11_TableAuto ==
    /\ (Returned /\ text = DocTable /\ mode_arg = None) => TableScenario
    /\ (Atomizing /\ mode_arg = None) => TablesConsumeRows

\* C11 amended: the scenario's atoms are those of markdown mode, where every
\* block that starts at a pipe row followed by a separator row is a table
\* taking all the consecutive pipe rows; auto-detection finds no signal in
\* the table text, takes it for plain, and the four lines are one paragraph;
\* plain mode has no table atom.
C11_TableMarkdown ==
    /\ (Returned /\ text = DocTable /\ mode = MARKDOWN) => TableScenario
    /\ (Returned /\ text = DocTable /\ mode_arg = None) =>
           /\ mode = PLAIN
           /\ AtomTypes = <<PARAGRAPH>>
           /\ atoms[1].start_line = 0 /\ atoms[1].end_line = 3
    /\ (Atomizing /\ mode = MARKDOWN) => TablesConsumeRows
    /\ (Atomizing /\ mode = PLAIN) => \A k \in 1..Len(atoms) : atoms[k].atom_type # TABLE

C11_Witness ==
    /\ Returned
    /\ text = DocTableRun
    /\ mode = MARKDOWN
    /\ \E k \in 1..Len(atoms) :
          /\ atoms[k].atom_type = TABLE
          /\ atoms[k].start_line = 1
          /\ atoms[k].end_line = 4

\* the line holds nothing but three of the marker c, after at most three
\* whitespace characters and before any trailing whitespace
OnlyMarker(line, c) ==
    LET lead == RunLen(line, 1, WS)
        t == rstrip(line)
    IN lead <= 3 /\ SubSeq(t, lead + 1, Len(t)) = <<c, c, c>>

\* the marker a fence-open line opens with: its first non-whitespace character
OpenMarker(line) == line[RunLen(line, 1, WS) + 1]

\* the last line of the fence opened at line k: the first later line that
\* holds only the same marker, or the last line of the text
FenceSpanEnd(k) ==
    LET closing == {j \in LineNumbers : j > k /\ OnlyMarker(Stripped(j), OpenMarker(Stripped(k)))}
    IN IF closing = {} THEN Len(lines) - 1
       ELSE CHOOSE j \in closing : \A j2 \in closing : j <= j2

SectionAtoms == {k \in 1..Len(atoms) : atoms[k].atom_type \in {HEADING, PSEUDO_HEADING}}

C13_Registry ==
    /\ pc # "AssertionError"
    /\ pc # "start" =>
          /\ \A k \in SectionAtoms :
                LET h == atoms[k]
                IN /\ h.section_node_id \in DOMAIN section_registry
                   /\ section_registry[h.section_node_id] = h.idx
                   /\ h.section_path_ids # <<>>
                   /\ h.section_path_ids[Len(h.section_path_ids)] = h.section_node_id
          /\ \A node_id \in DOMAIN section_registry :
                /\ section_registry[node_id] \in 0..(Len(atoms) - 1)
                /\ section_registry[node_id] + 1 \in SectionAtoms
                /\ atoms[section_registry[node_id] + 1].section_node_id = node_id

C13_Witness ==
    /\ pc = "atomized"
    /\ Cardinality(DOMAIN section_registry) >= 3
    /\ \E k \in SectionAtoms : atoms[k].atom_type = HEADING /\ atoms[k].idx > 0
    /\ \E k \in SectionAtoms : atoms[k].atom_type = PSEUDO_HEADING

\* C14: node ids are 1, 2, ..., K in document order, K the number of heading
\* and pseudo-heading atoms: the k-th of them has section_node_id k, the
\* registry's keys are 1..K, the next id is K + 1, and no atom carries id 0.
C14_NodeIds ==
    pc # "start" =>
        /\ \A k \in SectionAtoms :
              atoms[k].section_node_id = Cardinality({k2 \in SectionAtoms : k2 <= k})
        /\ DOMAIN section_registry = 1..Cardinality(SectionAtoms)
        /\ next_node_id = Cardinality(SectionAtoms) + 1
        /\ \A k \in 1..Len(atoms) :
              /\ atoms[k].section_node_id # 0
              /\ \A p \in 1..Len(atoms[k].section_path_ids) : atoms[k].section_path_ids[p] # 0

C14_Witness ==
    /\ pc = "atomized"
    /\ text = DocDeep
    /\ mode = MARKDOWN
    /\ Cardinality(SectionAtoms) = 4
    /\ atoms[Len(atoms)].section_node_id = 4

\* C15: every heading or pseudo-heading atom at depth d has one id for each
\* depth 1..d in its section_path_ids, so d ids in all, the last its own.
C15_PathPerDepth ==
    \A k \in SectionAtoms :
        /\ Len(atoms[k].section_path_ids) = atoms[k].depth
        /\ atoms[k].section_path_ids[Len(atoms[k].section_path_ids)] = atoms[k].section_node_id

(***************************************************************************)
(* The split flow of the command line.                                     *)
(***************************************************************************)
\* the policy of each stage, as the help text and the comments name them
StagePolicy(list_table_code, paragraphs) ==
    [allow_pseudo |-> cli.allow_pseudo,
     allow_hr |-> cli.allow_hr,
     allow_list_table_code |-> list_table_code,
     allow_paragraph_fallback |-> paragraphs]

StageOrder ==
    <<StagePolicy(FALSE, FALSE), StagePolicy(TRUE, FALSE), StagePolicy(TRUE, TRUE)>>

CliOver == pc \in {"cli_done", "cli_failed"}

\* C16: the split flow tries the strict policy, then the one that also admits
\* list/table/code, then the one that also admits paragraphs, in that order
\* and none skipped; a later policy is tried exactly when the one before it
\* raised infeasibility and, for the first relaxation, --split-relax is set;
\* the result reported is that of the first attempt that succeeds (exit 0);
\* without --split-relax a strict infeasibility ends the run with a non-zero
\* exit after that one attempt.
C16_RelaxationOrder ==
    LET t == cli.tried
        o == cli.outcomes
    IN /\ Len(t) <= 3
       /\ Len(o) = Len(t)
       /\ t = SubSeq(StageOrder, 1, Len(t))
       /\ \A k \in 1..(Len(o) - 1) : o[k] = "ValueError"
       /\ Len(t) >= 2 => cli.split_relax
       /\ CliOver =>
             /\ Len(t) >= 1
             /\ (o[Len(o)] = "ValueError" /\ Len(t) = 1) => ~cli.split_relax
             /\ o[Len(o)] = "ValueError" => Len(t) \in {1, 3}
       /\ pc = "cli_done" =>
             /\ o[Len(o)] = "ok"
             /\ cli.exit = "0"
             /\ result = partition_into_n(atoms, N, build_cut_candidates(atoms, t[Len(t)]),
                                          DefaultNonHeadingPenalty, DefaultTierPenalties)
       /\ pc = "cli_failed" =>
             /\ o[Len(o)] # "ok"
             /\ cli.exit = "nonzero"
             /\ result.status = o[Len(o)]

C16_Witness ==
    /\ pc = "cli_done"
    /\ Len(cli.tried) = 2
    /\ cli.outcomes = <<"ValueError", "ok">>
    /\ Len(result.cuts) = N - 1

\* C17: in markdown mode, after every heading or pseudo-heading push the
\* heading stack is a chain of strictly increasing depths and strictly
\* increasing node ids with the pushed entry on top, so nothing of the pushed
\* depth or deeper is left below it; for "# A\n## B\n### C\n# D\n" the D atom
\* has section_path_ids (4,) and the stack holds D alone.
C17_StackDiscipline ==
    /\ (pc # "start" /\ mode = MARKDOWN) =>
          /\ \A k \in 1..(Len(heading_stack) - 1) :
                /\ heading_stack[k].depth < heading_stack[k + 1].depth
                /\ heading_stack[k].node_id < heading_stack[k + 1].node_id
          /\ SectionAtoms = {} => heading_stack = <<>>
          /\ SectionAtoms # {} =>
                LET h == atoms[CHOOSE k \in SectionAtoms : \A k2 \in SectionAtoms : k2 <= k]
                    top == heading_stack[Len(heading_stack)]
                IN /\ heading_stack # <<>>
                   /\ top.depth = h.depth
                   /\ top.node_id = h.section_node_id
                   /\ \A k \in 1..(Len(heading_stack) - 1) : heading_stack[k].depth < h.depth
                   /\ h.section_path_ids = current_section_path_ids(heading_stack)
    /\ (Returned /\ text = DocNesting /\ mode = MARKDOWN) =>
          /\ Len(atoms) = 4
          /\ atoms[4].section_path_ids = <<4>>
          /\ heading_stack = <<[depth |-> 1, node_id |-> 4, title |-> <<"D">>]>>

C17_Witness ==
    /\ Returned
    /\ text = DocNesting
    /\ mode = MARKDOWN
    /\ atoms[3].section_path_ids = <<1, 2, 3>>
    /\ Len(heading_stack) = 1

\* the section_path_ids in force just before atom k was emitted
PathBefore(k) == IF k = 1 THEN <<>> ELSE atoms[k - 1].section_path_ids

\* the depth of the innermost section then (the path is not empty)
ParentDepth(k) ==
    atoms[section_registry[PathBefore(k)[Len(PathBefore(k))]] + 1].depth

PseudoAtoms == {k \in 1..Len(atoms) : atoms[k].atom_type = PSEUDO_HEADING}

\* a pseudo-heading met with an empty stack has depth 1 and a path of one id
PseudoAtTop ==
    \A k \in PseudoAtoms :
        PathBefore(k) = <<>> =>
            atoms[k].depth = 1 /\ Len(atoms[k].section_path_ids) = 1

\* C18 as stated: a pseudo-heading met with a non-empty stack has the
\* parent's depth plus one and the path in force before it followed by its
\* own id; with an empty stack it has depth 1 and a path of one id.
C18_PseudoOneDeeper ==
    /\ PseudoAtTop
    /\ \A k \in PseudoAtoms :
          PathBefore(k) # <<>> =>
              /\ atoms[k].depth = ParentDepth(k) + 1
              /\ atoms[k].section_path_ids = Append(PathBefore(k), atoms[k].section_node_id)

\* C18 amended: the depth is min(parent's depth + 1, 6); under a parent of
\* depth below 6 the path is the one in force before followed by the new id;
\* under a parent of depth 6 the pseudo-heading has depth 6 too and takes the
\* parent's place: the path is the one before without its last id, followed
\* by the new id.
C18_PseudoDepthCapped ==
    /\ PseudoAtTop
    /\ \A k \in PseudoAtoms :
          PathBefore(k) # <<>> =>
              /\ ParentDepth(k) \in 1..6
              /\ ParentDepth(k) < 6 =>
                    /\ atoms[k].depth = ParentDepth(k) + 1
                    /\ atoms[k].section_path_ids =
                           Append(PathBefore(k), atoms[k].section_node_id)
              /\ ParentDepth(k) = 6 =>
                    /\ atoms[k].depth = 6
                    /\ atoms[k].section_path_ids =
                           Append(SubSeq(PathBefore(k), 1, Len(PathBefore(k)) - 1),
                                  atoms[k].section_node_id)

C18_Witness ==
    /\ Returned
    /\ text = DocDeep
    /\ mode = MARKDOWN
    /\ atoms[2].atom_type = PSEUDO_HEADING
    /\ atoms[2].depth = 6
    /\ atoms[2].section_path_ids = <<2>>

(***************************************************************************)
(* ALL-CAPS lines.                                                         *)
(***************************************************************************)
\* the stated test: the trimmed line has at most 80 characters, all of them
\* of [A-Z0-9 -:,'".()], at least one a letter, over 80% of the letters upper
AllCapsStated(line) ==
    LET s == strip(line)
        letters == {p \in 1..Len(s) : s[p] \in Alpha}
        upper == {p \in letters : s[p] \in Upper}
    IN /\ Len(s) <= MaxCapsLen
       /\ \A p \in 1..Len(s) : s[p] \in CapsClass
       /\ letters # {}
       /\ 10 * Cardinality(upper) > 8 * Cardinality(letters)

\* the line is none of blank, horizontal rule, fence, markdown heading
ReachesPseudoRule(line) ==
    /\ ~IsBlankLine(line)
    /\ ~RE_HR(line)
    /\ ~RE_FENCE(line)
    /\ ~(mode = MARKDOWN /\ RE_HEADING(line))

\* C19: a block that starts at a non-blank line that is no horizontal rule,
\* fence or (markdown) ATX heading is a pseudo-heading for being ALL-CAPS
\* exactly when the line passes the stated test; one-character lines like
\* "A" and lines opening with punctuation like "(NOTE)" included.
C19_AllCaps ==
    \A k \in 1..Len(atoms) :
        LET line == Stripped(atoms[k].start_line)
        IN ReachesPseudoRule(line) =>
              /\ AllCapsStated(line) => atoms[k].atom_type = PSEUDO_HEADING
              /\ (/\ atoms[k].atom_type = PSEUDO_HEADING
                  /\ is_standalone_bold_heading(line) = <<>>) => AllCapsStated(line)

(***************************************************************************)
(* The first two components of the objective.                              *)
(***************************************************************************)
\* <<a1, a2>> is lexicographically below <<b1, b2>>
PairLess(a, b) == a[1] < b[1] \/ (a[1] = b[1] /\ a[2] < b[2])

\* the N-1 element subsets of the candidates
Choices == {S \in SUBSET Range(cands) : Cardinality(S) = N - 1}

\* C20: a successful partition into N >= 2 segments has the least number of
\* non-heading cuts any choice of N-1 candidates has, and among the choices
\* with that number the least largest-segment word count; the penalty sum
\* decides only between choices equal on both, so no choice with a lighter
\* penalty is taken at the cost of either.
C20_FirstTwoMinimal ==
    (Succeeded /\ N >= 2) =>
        /\ \A S \in Choices : ~PairLess(StatedObjective(atoms, S), result.objective)
        /\ Range(result.cuts) \in Choices
        /\ StatedObjective(atoms, Range(result.cuts))[1] = result.objective[1]
        /\ StatedObjective(atoms, Range(result.cuts))[2] = result.objective[2]

C20_Witness ==
    /\ Succeeded
    /\ N >= 3
    /\ \E S \in Choices :
          /\ StatedObjective(atoms, S)[3] < result.objective[3]
          /\ PairLess(result.objective, StatedObjective(atoms, S))
    /\ \E S \in Choices :
          /\ StatedObjective(atoms, S)[1] = result.objective[1]
          /\ StatedObjective(atoms, S)[2] > result.objective[2]

(***************************************************************************)
(* The segments of a partition.                                            *)
(***************************************************************************)
\* C21: the segments of a successful partition, its candidates within
\* [1, M-1], tile the atoms from left to right: seg_idx runs 0..N-1, the
\* first segment starts at atom 0, each segment ends where the next starts,
\* at the cut between them, the last ends at M, none is empty, the words of
\* each is the sum of the weight_words of its atoms, and the words of all
\* add up to those of the document.
C21_SegmentsTile ==
    (result.status = "ok" /\ \A k \in 1..Len(cands) : cands[k] \in 1..(Len(atoms) - 1)) =>
        LET segs == result.segments
        IN /\ Len(segs) = N
           /\ \A k \in 1..N :
                 /\ segs[k].seg_idx = k - 1
                 /\ segs[k].start_atom < segs[k].end_atom_excl
                 /\ segs[k].words =
                        WordsBetween(atoms, segs[k].start_atom, segs[k].end_atom_excl)
           /\ segs[1].start_atom = 0
           /\ \A k \in 1..(N - 1) :
                 /\ segs[k].end_atom_excl = segs[k + 1].start_atom
                 /\ segs[k + 1].start_atom = result.cuts[k]
           /\ segs[N].end_atom_excl = Len(atoms)
           /\ Sum([k \in 1..N |-> segs[k].words]) = WordsBetween(atoms, 0, Len(atoms))

C21_Witness ==
    /\ result.status = "ok"
    /\ N >= 3
    /\ \E k \in 1..N : result.segments[k].end_atom_excl > result.segments[k].start_atom + 1
    /\ \E k \in 1..N : result.segments[k].words = 0
    /\ WordsBetween(atoms, 0, Len(atoms)) >= 3

====
